---- MODULE Spec2Model ----
(***************************************************************************)
(* A model of dracut/driver_updates.py: the driver-update-disk handler.    *)
(*                                                                         *)
(*   Spec       NumProcs concurrent invocations of handle_dd, one OS       *)
(*              process each, sharing the files under /tmp; their sources  *)
(*              are blank disks, so each is mount, umount, finish().       *)
(*   SpecDisk   one invocation of handle_dd on a source that holds         *)
(*              repositories and a nested image.                           *)
(*   SpecLedger mark_finished() / all_finished() over arbitrary ledgers.   *)
(*   SpecMenu   one TextMenu object driven by TextMenu.run().              *)
(*   SpecMkdir  mkdir_seq() over directories left by earlier runs.         *)
(*   SpecFiles  copy_files() / move_files() over small file trees.         *)
(*   SpecInteractive  interactive(): the device menu, dd_menu, iso_menu,   *)
(*              repo_menu and finish('menu').                              *)
(***************************************************************************)
EXTENDS Integers, Sequences, FiniteSets, TLC

VARIABLES
    \* ---- files shared by every process --------------------------------
    todo,        \* /tmp/dd_todo, as read_lines() returns it
    finished,    \* /tmp/dd_finished
    sentinel,    \* /tmp/dd.done (<<>> while the file does not exist)
    pkglist,     \* /run/install/dd_packages
    dirs,        \* directories made by mkdir_seq: a set of <<stem, n>>
    staged,      \* /run/install/DD-n -> what save_repo's cp left there
    updates,     \* package sources dd_extract has unpacked into /updates
    \* ---- one handle_dd process each -----------------------------------
    req,         \* user_request (argv[2])
    pc,          \* where the process is
    call,        \* arguments of the pending process_driver_disk() call
    frames,      \* the active process_driver_disk() calls, innermost last
    held,        \* mounts taken for which no umount has been issued
    grabbed,     \* grab_driver_files() has returned
    modules,     \* result of grab_driver_files()
    loaded,      \* outcome of load_drivers(): "none", "ok" or "failed"
    rdFinished,  \* all_finished(): the local `finished`
    rdTodo,      \* all_finished(): the local `todo`
    cmds,        \* the mount, umount and dd_extract commands run, in order
    \* ---- one TextMenu ---------------------------------------------------
    items, refresher, multi, page_height, pagenum, selected_items, is_done,
    \* ---- the ledger functions on their own -----------------------------
    outer,       \* the menus suspended while a menu opened later is running
    answer,      \* what the last all_finished() call returned
    \* ---- mkdir_seq on its own --------------------------------------------
    made,        \* the paths the mkdir_seq() calls have returned, in order
    probe,       \* the mkdir_seq() calls in progress: [stem, n, ret]
    \* ---- copy_files / move_files on their own ---------------------------
    tree,        \* the files that exist: path -> content
    args,        \* the arguments of the call: [files, destdir]
    fileop       \* the call made and how it ended: [op, raised]

procVars   == <<req, pc, call, frames, held, grabbed, modules, loaded, rdFinished,
                rdTodo, cmds>>
fileVars   == <<todo, finished, sentinel, pkglist, dirs, staged, updates>>
menuVars   == <<items, refresher, multi, page_height, pagenum, selected_items,
                is_done>>
fopVars    == <<tree, args, fileop>>
vars       == <<fileVars, procVars, menuVars, outer, answer, made, probe, fopVars>>
\* what the handle_dd processes never touch
idle       == <<menuVars, outer, answer, made, probe, fopVars>>

\* --------------------------------------------------------------------------
\* Bounds
\* --------------------------------------------------------------------------
NumProcs == 2
MaxLedger == 2
MaxItems == 3
MaxSuffix == 3
MaxCalls == 3
MaxFiles == 2
MaxMounts == 3
MaxRuns == 2

Procs == 1..NumProcs

Range(s) == {s[i] : i \in DOMAIN s}

\* --------------------------------------------------------------------------
\* The media the requests resolve to (the inputs of the run)
\* --------------------------------------------------------------------------
\* user_request strings (dd=... on the kernel command line) whose sources
\* hold no repository and no image
BlankRequests == {"LABEL=OEMDRV", "http://host/blank.iso"}

\* user_request strings whose sources hold driver repositories
DiskRequests == {"LABEL=DD", "http://host/dd.iso", "LABEL=ISOS"}

Requests == BlankRequests \cup DiskRequests

\* DEVNODE / LOCALFILE the caller resolved the request to
DevOf(r) ==
    CASE r = "LABEL=DD"              -> "/dev/sr0"
      [] r = "LABEL=OEMDRV"          -> "/dev/sdb1"
      [] r = "LABEL=ISOS"            -> "/dev/sdc1"
      [] r = "http://host/dd.iso"    -> "/tmp/dd.iso"
      [] OTHER                       -> "/tmp/blank.iso"

\* dd_dev.startswith("/dev")
IsDevNode(dev) == dev \in {"/dev/sr0", "/dev/sdb1", "/dev/sdc1", "/dev/sdd1"}

\* dev.endswith('.iso')
endswith_iso(dev) ==
    dev \in {"nested.iso", "inner.iso", "empty.iso", "/tmp/dd.iso", "/tmp/blank.iso"}

Repos == {"sr0/rpms", "nested/rpms", "dd/rpms", "inner/a/rpms", "inner/b/rpms"}

\* what find_repos(mnt) returns for the filesystem on `dev`
find_repos(dev) ==
    CASE dev = "/dev/sr0"    -> <<"sr0/rpms">>
      [] dev = "nested.iso"  -> <<"nested/rpms">>
      [] dev = "/tmp/dd.iso" -> <<"dd/rpms">>
      [] dev = "inner.iso"   -> <<"inner/a/rpms", "inner/b/rpms">>
      [] OTHER               -> <<>>

\* what find_isos(mnt) returns for the filesystem on `dev`
find_isos(dev) ==
    CASE dev = "/dev/sr0"    -> <<"nested.iso">>
      [] dev = "/dev/sdc1"   -> <<"inner.iso">>
      [] dev = "/dev/sdd1"   -> <<"empty.iso">>
      [] OTHER               -> <<>>

\* what the dd_list tool prints for a repo: Driver(source, name, flags)
RepoDrivers(repo) ==
    CASE repo = "sr0/rpms" ->
            << [source |-> "sr0/kmod.rpm", name |-> "kmod", flags |-> {"modules"}],
               [source |-> "sr0/tool.rpm", name |-> "tool", flags |-> {"binaries"}] >>
      [] repo = "nested/rpms" ->
            << [source |-> "nested/fw.rpm", name |-> "fw", flags |-> {"firmwares"}],
               [source |-> "nested/kmod.rpm", name |-> "kmod", flags |-> {"modules"}] >>
      [] repo = "inner/a/rpms" ->
            << [source |-> "inner/a/kmod.rpm", name |-> "kmod", flags |-> {"modules"}] >>
      [] repo = "inner/b/rpms" ->
            << [source |-> "inner/b/doc.rpm", name |-> "doc", flags |-> {}] >>
      [] repo = "dd/rpms" ->
            << [source |-> "dd/net.rpm", name |-> "net",
                flags |-> {"modules", "firmwares"}] >>
      [] OTHER -> <<>>

\* --------------------------------------------------------------------------
\* Helpers of the program
\* --------------------------------------------------------------------------
\* mkdir_seq(stem): makedirs(stem+n) for n = 1, 2, ... until one succeeds
RECURSIVE mkdir_try(_, _, _)
mkdir_try(stem, n, existing) ==
    IF <<stem, n>> \in existing THEN mkdir_try(stem, n + 1, existing) ELSE n

\* a bug mkdir_seq could have: the directories are counted, not probed
mkdir_seq_counted(stem, existing) ==
    Cardinality({d \in existing : d[1] = stem}) + 1

mkdir_seq(stem, existing) == mkdir_try(stem, 1, existing)

\* A file is the sequence of what was written to it: pieces of text and
\* line terminators.
NL == "\n"

\* a bug append_line could have: the file is opened with 'w', not 'a'
append_line_truncating(file, line) == <<line, NL>>

\* append_line(filename, line): `line` plus the "\n" it lacks, in one write
append_line(file, line) == file \o <<line, NL>>

\* str.splitlines() from position i on; `cur` is the line read so far and
\* `open` tells whether anything follows the last terminator
RECURSIVE splitlines(_, _, _, _)
splitlines(file, i, cur, open) ==
    IF i > Len(file) THEN (IF open THEN <<cur>> ELSE <<>>)
    ELSE IF file[i] = NL THEN <<cur>> \o splitlines(file, i + 1, "", FALSE)
    ELSE splitlines(file, i + 1, cur \o file[i], TRUE)

\* read_lines(filename): the lines of the file, [] when it does not exist
read_lines(file) == splitlines(file, 1, "", FALSE)

\* a bug all_finished() could have: finished \subseteq todo is taken for done
all_finished_subset(fin, td) == Range(fin) \subseteq Range(td)

\* a bug all_finished() could have: the lists are compared, not the sets
all_finished_lists(fin, td) == fin = td

\* all_finished(): set(finished) == set(todo), on the lines already read
all_finished(fin, td) == Range(fin) = Range(td)

\* mark_finished(user_request)
mark_finished(file, user_request) == append_line(file, user_request)

\* --------------------------------------------------------------------------
\* copy_files / move_files. A file path is the sequence of its components.
\* --------------------------------------------------------------------------
NoArgs == [files |-> <<>>, destdir |-> <<>>]

NoOp == [op |-> "none", raised |-> FALSE]

\* the text of name a is a prefix of the text of name b
NamePrefix(a, b) == a = b \/ (a = "dest" /\ b = "dest2")

\* f.startswith(destdir), on the text of the two paths
startswith(f, d) ==
    /\ Len(d) <= Len(f)
    /\ \A i \in 1..(Len(d) - 1) : f[i] = d[i]
    /\ NamePrefix(d[Len(d)], f[Len(d)])

\* os.path.basename
basename(f) == f[Len(f)]

\* srcfiles = [f for f in files if not f.startswith(destdir)]
srcfiles(files, destdir) == SelectSeq(files, LAMBDA f : ~startswith(f, destdir))

\* the file at `path` now holds `content`
put(t, path, content) ==
    [q \in DOMAIN t \cup {path} |-> IF q = path THEN content ELSE t[q]]

\* the file at `path` is gone
remove(t, path) == [q \in DOMAIN t \ {path} |-> t[q]]

\* cp -f -t destdir srcs / mv -f -t destdir srcs: the sources are taken in
\* order; a missing source, a source that is its own target and a target
\* written earlier by the same command are reported (exit status 1) and
\* passed over. st = [tree, created, err]
RECURSIVE into_dir(_, _, _, _)
into_dir(move, st, srcs, destdir) ==
    IF srcs = <<>> THEN st
    ELSE LET f == Head(srcs)
             target == Append(destdir, basename(f))
             bad == \/ f \notin DOMAIN st.tree
                    \/ target = f
                    \/ target \in st.created
             copied == put(st.tree, target, st.tree[f])
             nxt == IF bad THEN [st EXCEPT !.err = TRUE]
                    ELSE [tree |-> IF move THEN remove(copied, f) ELSE copied,
                          created |-> st.created \cup {target},
                          err |-> st.err]
         IN into_dir(move, nxt, Tail(srcs), destdir)

\* subprocess.check_call(["cp", "-f", "-t", destdir] + srcs)
cp(t, srcs, destdir) == into_dir(FALSE, [tree |-> t, created |-> {}, err |-> FALSE],
                                 srcs, destdir)

\* subprocess.check_call(["mv", "-f", "-t", destdir] + srcs)
mv(t, srcs, destdir) == into_dir(TRUE, [tree |-> t, created |-> {}, err |-> FALSE],
                                 srcs, destdir)

\* copy_files(files, destdir): the tree it leaves and whether it raised
copy_files(t, files, destdir) ==
    IF srcfiles(files, destdir) # <<>>
    THEN cp(t, srcfiles(files, destdir), destdir)
    ELSE [tree |-> t, created |-> {}, err |-> FALSE]

\* move_files(files, destdir): mv is handed list(files), not srcfiles
move_files(t, files, destdir) ==
    IF srcfiles(files, destdir) # <<>>
    THEN mv(t, files, destdir)
    ELSE [tree |-> t, created |-> {}, err |-> FALSE]

\* --------------------------------------------------------------------------
\* handle_dd(mode, user_request, dd_dev), one process per invocation
\* --------------------------------------------------------------------------
NoCall == [dev |-> "", opts |-> "None"]

\* handle_dd: "loop" unless dd_dev.startswith("/dev")
handle_dd_opts(dev) == IF IsDevNode(dev) THEN "None" ELSE "loop"

\* mounted(): what an exception raised inside the `with` block leaves of the
\* mounts held: the generator has no try/finally, umount is not reached
mounted_on_error(h) == h

\* umount(dev): the mount of `dev` taken last is the one detached
umount(h, dev) ==
    LET at == {i \in DOMAIN h : h[i].dev = dev} IN
    IF at = {} THEN h
    ELSE LET k == CHOOSE i \in at : \A j \in at : j <= i
         IN SubSeq(h, 1, k - 1) \o SubSeq(h, k + 1, Len(h))

\* a bug mounted() could have: the block ends without the umount
mounted_on_exit_leak(h, dev) == h

\* mounted(): the block ended normally, umount(dev) is called
mounted_on_exit(h, dev) == umount(h, dev)

\* an external tool run with check_call/check_output failed: the exception
\* leaves every enclosing `with mounted(...)` and ends the process
Raise(p) ==
    /\ pc' = [pc EXCEPT ![p] = "failed"]
    /\ held' = [held EXCEPT ![p] = mounted_on_error(held[p])]

\* a bug process_driver_disk could have: the images are not looked into
Continue_no_images(p, frs) ==
    LET top == frs[Len(frs)] IN
    IF top.repos # <<>>
    THEN /\ pc' = [pc EXCEPT ![p] = "save"]
         /\ frames' = [frames EXCEPT ![p] = frs]
         /\ call' = [call EXCEPT ![p] = NoCall]
    ELSE /\ pc' = [pc EXCEPT ![p] = "umount"]
         /\ frames' = [frames EXCEPT ![p] = frs]
         /\ call' = [call EXCEPT ![p] = NoCall]

\* process_driver_disk: where the innermost call goes on: the next repo, the
\* next .iso (a recursive call), or the end of the `with` block
Continue(p, frs) ==
    LET top == frs[Len(frs)] IN
    IF top.repos # <<>>
    THEN /\ pc' = [pc EXCEPT ![p] = "save"]
         /\ frames' = [frames EXCEPT ![p] = frs]
         /\ call' = [call EXCEPT ![p] = NoCall]
    ELSE IF top.isos # <<>>
    THEN /\ pc' = [pc EXCEPT ![p] = "mount"]
         /\ frames' = [frames EXCEPT ![p] =
                          [frs EXCEPT ![Len(frs)].isos = Tail(top.isos)]]
         /\ call' = [call EXCEPT ![p] = [dev |-> Head(top.isos), opts |-> "loop"]]
    ELSE /\ pc' = [pc EXCEPT ![p] = "umount"]
         /\ frames' = [frames EXCEPT ![p] = frs]
         /\ call' = [call EXCEPT ![p] = NoCall]

\* A path is <<stem, n>>, the text stem followed by the number n (by nothing
\* when n = 0); <<>> stands for None.
\* mounted(dev, options=mount_opts), the call of process_driver_disk: the
\* arguments as mounted(dev, mnt=None, options=None) receives them
mounted_kw(dev, options) == [dev |-> dev, mnt |-> <<>>, options |-> options]

\* mount(): mnt = mkdir_seq("/media/DD-") if not mnt
mount_point(mnt, existing) ==
    IF mnt = <<>> THEN <<"/media/DD-", mkdir_seq("/media/DD-", existing)>> ELSE mnt

\* mount(): the directories that exist after `if not mnt: mnt = mkdir_seq(..)`
mount_dirs(mnt, existing) ==
    IF mnt = <<>> THEN existing \cup {mount_point(mnt, existing)} ELSE existing

\* mount(): cmd = ["mount", dev, mnt] + (["-o", options] if options)
mount_cmd(dev, mnt, options, ok) ==
    [cmd |-> "mount", dev |-> dev, mnt |-> mnt, opts |-> options, ok |-> ok]

\* umount(mnt): ["umount", mnt]
umount_cmd(mnt) == [cmd |-> "umount", dev |-> mnt]

\* dd_extract(rpm_path, outdir)
dd_extract_cmd(rpm_path, ok) == [cmd |-> "dd_extract", dev |-> rpm_path, ok |-> ok]

\* mounted() -> mount(dev, None, options): mkdir_seq("/media/DD-"), then
\* check_call(["mount", dev, mnt, ...]); `ok` is the tool's exit status
Mount(p, ok) ==
    /\ pc[p] = "mount"
    /\ LET a == mounted_kw(call[p].dev, call[p].opts)
           mnt == mount_point(a.mnt, dirs)
           m == [dev |-> a.dev, mnt |-> mnt, opts |-> a.options]
           fr == [dev |-> a.dev, mnt |-> mnt,
                  repos |-> find_repos(a.dev),
                  isos |-> find_isos(a.dev),
                  drivers |-> <<>>]
       IN /\ dirs' = mount_dirs(a.mnt, dirs)
          /\ cmds' = [cmds EXCEPT ![p] =
                         Append(@, mount_cmd(a.dev, mnt, a.options, ok))]
          /\ IF ok
             THEN /\ held' = [held EXCEPT ![p] = Append(held[p], m)]
                  /\ Continue(p, Append(frames[p], fr))
             ELSE /\ Raise(p)
                  /\ UNCHANGED <<frames, call>>
    /\ UNCHANGED <<todo, finished, sentinel, pkglist, staged, updates>>
    /\ UNCHANGED <<req, grabbed, modules, loaded, rdFinished, rdTodo>>
    /\ UNCHANGED idle

\* save_repo(repo): mkdir_seq("/run/install/DD-"), then call(["cp", "-arT",
\* repo, newdir]) whose exit status `ok` is not looked at
SaveRepo(p, ok) ==
    /\ pc[p] = "save"
    /\ LET top == frames[p][Len(frames[p])]
           n == mkdir_seq("/run/install/DD-", dirs)
       IN /\ dirs' = dirs \cup {<<"/run/install/DD-", n>>}
          /\ staged' = staged @@ (n :> [repo |-> Head(top.repos), copied |-> ok])
    /\ pc' = [pc EXCEPT ![p] = "list"]
    /\ UNCHANGED <<todo, finished, sentinel, pkglist, updates>>
    /\ UNCHANGED <<req, cmds, call, frames, held, grabbed, modules, loaded, rdFinished,
                   rdTodo>>
    /\ UNCHANGED idle

\* extract_repo(repo): dd_list(repo), a check_output call
DdList(p, ok) ==
    /\ pc[p] = "list"
    /\ LET frs == frames[p]
           top == frs[Len(frs)]
       IN IF ok
          THEN /\ frames' = [frames EXCEPT ![p] =
                     [frs EXCEPT ![Len(frs)].drivers = RepoDrivers(Head(top.repos))]]
               /\ pc' = [pc EXCEPT ![p] = "extract"]
               /\ UNCHANGED held
          ELSE /\ Raise(p)
               /\ UNCHANGED frames
    /\ UNCHANGED fileVars
    /\ UNCHANGED <<req, cmds, call, grabbed, modules, loaded, rdFinished, rdTodo>>
    /\ UNCHANGED idle

\* a bug extract_repo could have: only module packages are recorded
in_pkglist_modules_only(flags) == "modules" \in flags

\* extract_repo: 'modules' in driver.flags or 'firmwares' in driver.flags
in_pkglist(flags) == "modules" \in flags \/ "firmwares" \in flags

\* a bug extract_repo could have: a package that fails to extract is skipped
DdExtract_skip_failed(p, ok) ==
    /\ pc[p] = "extract"
    /\ LET frs == frames[p]
           top == frs[Len(frs)]
       IN IF top.drivers = <<>>
          THEN /\ ok
               /\ Continue(p, [frs EXCEPT ![Len(frs)].repos = Tail(top.repos)])
               /\ UNCHANGED <<held, updates, pkglist, cmds>>
          ELSE LET driver == Head(top.drivers) IN
               /\ cmds' = [cmds EXCEPT ![p] =
                              Append(@, dd_extract_cmd(driver.source, ok))]
               /\ updates' = IF ok THEN updates \cup {driver.source} ELSE updates
               /\ pkglist' = IF ok /\ in_pkglist(driver.flags)
                             THEN append_line(pkglist, driver.name)
                             ELSE pkglist
               /\ frames' = [frames EXCEPT ![p] =
                     [frs EXCEPT ![Len(frs)].drivers = Tail(top.drivers)]]
               /\ UNCHANGED <<pc, call, held>>
    /\ UNCHANGED <<todo, finished, sentinel, dirs, staged>>
    /\ UNCHANGED <<req, grabbed, modules, loaded, rdFinished, rdTodo>>
    /\ UNCHANGED idle

\* extract_repo(repo): dd_extract(driver.source, outdir) for the next driver,
\* a check_output call, then append_line(pkglist, driver.name) when the flags
\* name modules or firmwares; after the last driver the repo is done
DdExtract(p, ok) ==
    /\ pc[p] = "extract"
    /\ LET frs == frames[p]
           top == frs[Len(frs)]
       IN IF top.drivers = <<>>
          THEN /\ ok
               /\ Continue(p, [frs EXCEPT ![Len(frs)].repos = Tail(top.repos)])
               /\ UNCHANGED <<held, updates, pkglist, cmds>>
          ELSE LET driver == Head(top.drivers) IN
               /\ cmds' = [cmds EXCEPT ![p] =
                              Append(@, dd_extract_cmd(driver.source, ok))]
               /\ IF ok
                  THEN /\ updates' = updates \cup {driver.source}
                       /\ pkglist' = IF in_pkglist(driver.flags)
                                     THEN append_line(pkglist, driver.name)
                                     ELSE pkglist
                       /\ frames' = [frames EXCEPT ![p] =
                             [frs EXCEPT ![Len(frs)].drivers = Tail(top.drivers)]]
                       /\ UNCHANGED <<pc, call, held>>
                  ELSE /\ Raise(p)
                       /\ UNCHANGED <<frames, call, updates, pkglist>>
    /\ UNCHANGED <<todo, finished, sentinel, dirs, staged>>
    /\ UNCHANGED <<req, grabbed, modules, loaded, rdFinished, rdTodo>>
    /\ UNCHANGED idle

\* a bug umount() could have: check_call, a failing umount raises
Umount_checked(p, ok) ==
    /\ pc[p] = "umount"
    /\ LET frs == frames[p]
           top == frs[Len(frs)]
           rest == SubSeq(frs, 1, Len(frs) - 1)
       IN /\ cmds' = [cmds EXCEPT ![p] = Append(@, umount_cmd(top.dev))]
          /\ IF ~ok
             THEN /\ Raise(p)
                  /\ UNCHANGED <<frames, call>>
             ELSE /\ held' = [held EXCEPT ![p] = mounted_on_exit(held[p], top.dev)]
                  /\ IF rest = <<>>
                     THEN /\ pc' = [pc EXCEPT ![p] = "grab"]
                          /\ frames' = [frames EXCEPT ![p] = rest]
                          /\ UNCHANGED call
                     ELSE Continue(p, rest)
    /\ UNCHANGED fileVars
    /\ UNCHANGED <<req, grabbed, modules, loaded, rdFinished, rdTodo>>
    /\ UNCHANGED idle

\* mounted(): the `with` block of process_driver_disk ended normally;
\* umount() uses subprocess.call, its exit status `ok` is not looked at.
\* The outermost call returns into handle_dd, which calls finish()
Umount(p, ok) ==
    /\ pc[p] = "umount"
    /\ LET frs == frames[p]
           top == frs[Len(frs)]
           rest == SubSeq(frs, 1, Len(frs) - 1)
       IN /\ held' = [held EXCEPT ![p] = mounted_on_exit(held[p], top.dev)]
          /\ cmds' = [cmds EXCEPT ![p] = Append(@, umount_cmd(top.dev))]
          /\ IF rest = <<>>
             THEN /\ pc' = [pc EXCEPT ![p] = "grab"]
                  /\ frames' = [frames EXCEPT ![p] = rest]
                  /\ UNCHANGED call
             ELSE Continue(p, rest)
    /\ UNCHANGED fileVars
    /\ UNCHANGED <<req, grabbed, modules, loaded, rdFinished, rdTodo>>
    /\ UNCHANGED idle

\* grab_driver_files(): the names of the modules found under /updates
module_names(upd) ==
    {d.name : d \in {x \in UNION {Range(RepoDrivers(r)) : r \in Repos} :
                        x.source \in upd /\ "modules" \in x.flags}}

\* a bug finish() could have: the exit status of the copy is not checked
Grab_unchecked(p, ok) ==
    /\ pc[p] = "grab"
    /\ modules' = [modules EXCEPT ![p] = module_names(updates)]
    /\ grabbed' = [grabbed EXCEPT ![p] = ok]
    /\ pc' = [pc EXCEPT ![p] = "load"]
    /\ UNCHANGED held
    /\ UNCHANGED fileVars
    /\ UNCHANGED <<req, cmds, call, frames, loaded, rdFinished, rdTodo>>
    /\ UNCHANGED idle

\* finish(): modules = grab_driver_files(); its mkdir/cp/mv are check_call
Grab(p, ok) ==
    /\ pc[p] = "grab"
    /\ IF ok
       THEN /\ modules' = [modules EXCEPT ![p] = module_names(updates)]
            /\ grabbed' = [grabbed EXCEPT ![p] = TRUE]
            /\ pc' = [pc EXCEPT ![p] = "load"]
            /\ UNCHANGED held
       ELSE /\ Raise(p)
            /\ UNCHANGED <<modules, grabbed>>
    /\ UNCHANGED fileVars
    /\ UNCHANGED <<req, cmds, call, frames, loaded, rdFinished, rdTodo>>
    /\ UNCHANGED idle

\* finish(): load_drivers(modules); depmod and modprobe run with
\* subprocess.call, their exit status `ok` is not looked at
Load(p, ok) ==
    /\ pc[p] = "load"
    /\ loaded' = [loaded EXCEPT ![p] = IF ok THEN "ok" ELSE "failed"]
    /\ pc' = [pc EXCEPT ![p] = "mark"]
    /\ UNCHANGED fileVars
    /\ UNCHANGED <<req, cmds, call, frames, held, grabbed, modules, rdFinished, rdTodo>>
    /\ UNCHANGED idle

\* finish(): mark_finished(user_request)
Mark(p) ==
    /\ pc[p] = "mark"
    /\ finished' = mark_finished(finished, req[p])
    /\ pc' = [pc EXCEPT ![p] = "readf"]
    /\ UNCHANGED <<todo, sentinel, pkglist, dirs, staged, updates>>
    /\ UNCHANGED <<req, cmds, call, frames, held, grabbed, modules, loaded, rdFinished,
                   rdTodo>>
    /\ UNCHANGED idle

\* all_finished(): finished = read_lines("/tmp/dd_finished")
ReadFinished(p) ==
    /\ pc[p] = "readf"
    /\ rdFinished' = [rdFinished EXCEPT ![p] = read_lines(finished)]
    /\ pc' = [pc EXCEPT ![p] = "readt"]
    /\ UNCHANGED fileVars
    /\ UNCHANGED <<req, cmds, call, frames, held, grabbed, modules, loaded, rdTodo>>
    /\ UNCHANGED idle

\* all_finished(): todo = read_lines("/tmp/dd_todo"), and the comparison
\* that decides finish()'s `if`
ReadTodo(p) ==
    /\ pc[p] = "readt"
    /\ rdTodo' = [rdTodo EXCEPT ![p] = read_lines(todo)]
    /\ pc' = [pc EXCEPT ![p] =
                 IF all_finished(rdFinished[p], read_lines(todo))
                 THEN "write" ELSE "done"]
    /\ UNCHANGED fileVars
    /\ UNCHANGED <<req, cmds, call, frames, held, grabbed, modules, loaded, rdFinished>>
    /\ UNCHANGED idle

\* finish(): append_line("/tmp/dd.done", "true")
WriteSentinel(p) ==
    /\ pc[p] = "write"
    /\ sentinel' = append_line(sentinel, "true")
    /\ pc' = [pc EXCEPT ![p] = "done"]
    /\ UNCHANGED <<todo, finished, pkglist, dirs, staged, updates>>
    /\ UNCHANGED <<req, cmds, call, frames, held, grabbed, modules, loaded, rdFinished,
                   rdTodo>>
    /\ UNCHANGED idle

\* --------------------------------------------------------------------------
\* Specifications of the handle_dd processes
\* --------------------------------------------------------------------------
\* /tmp/dd_todo as the boot scripts wrote it, one line per request
TodoFiles(requests) ==
    {append_line(<<>>, r) : r \in requests}
    \cup {append_line(append_line(<<>>, r), s) : r, s \in requests}

MenuIdle ==
    /\ items = <<>> /\ refresher = "None" /\ multi = FALSE /\ page_height = 1
    /\ pagenum = 1 /\ selected_items = <<>> /\ is_done = FALSE
    /\ outer = <<>> /\ made = <<>> /\ probe = <<>>
    /\ tree = <<>> /\ args = NoArgs /\ fileop = NoOp

\* main() has called handle_dd in each process of `procs`, for a request
\* that dd_todo lists
InitProcs(procs) ==
    /\ req \in [procs -> Range(read_lines(todo))]
    /\ pc = [p \in procs |-> "mount"]
    /\ call = [p \in procs |->
                 [dev |-> DevOf(req[p]), opts |-> handle_dd_opts(DevOf(req[p]))]]
    /\ frames = [p \in procs |-> <<>>]
    /\ held = [p \in procs |-> <<>>]
    /\ grabbed = [p \in procs |-> FALSE]
    /\ modules = [p \in procs |-> {}]
    /\ loaded = [p \in procs |-> "none"]
    /\ rdFinished = [p \in procs |-> <<>>]
    /\ rdTodo = [p \in procs |-> <<>>]
    /\ cmds = [p \in procs |-> <<>>]

Init ==
    /\ todo \in TodoFiles(BlankRequests)
    /\ finished = <<>> /\ sentinel = <<>> /\ pkglist = <<>>
    /\ dirs = {} /\ staged = <<>> /\ updates = {}
    /\ InitProcs(Procs)
    /\ MenuIdle
    /\ answer = "none"

DoMount         == \E p \in DOMAIN pc, ok \in BOOLEAN : Mount(p, ok)
DoSaveRepo      == \E p \in DOMAIN pc, ok \in BOOLEAN : SaveRepo(p, ok)
DoDdList        == \E p \in DOMAIN pc, ok \in BOOLEAN : DdList(p, ok)
DoDdExtract     == \E p \in DOMAIN pc, ok \in BOOLEAN : DdExtract(p, ok)
DoUmount        == \E p \in DOMAIN pc, ok \in BOOLEAN : Umount(p, ok)
DoGrab          == \E p \in DOMAIN pc, ok \in BOOLEAN : Grab(p, ok)
DoLoad          == \E p \in DOMAIN pc, ok \in BOOLEAN : Load(p, ok)
DoMark          == \E p \in DOMAIN pc : Mark(p)
DoReadFinished  == \E p \in DOMAIN pc : ReadFinished(p)
DoReadTodo      == \E p \in DOMAIN pc : ReadTodo(p)
DoWriteSentinel == \E p \in DOMAIN pc : WriteSentinel(p)

Next ==
    \/ DoMount \/ DoUmount \/ DoGrab \/ DoLoad
    \/ DoMark \/ DoReadFinished \/ DoReadTodo \/ DoWriteSentinel

Spec == Init /\ [][Next]_vars

\* one invocation; an earlier invocation may have marked another request
InitDisk ==
    /\ todo \in TodoFiles(Requests)
    /\ InitProcs({1})
    /\ finished \in {<<>>} \cup {mark_finished(<<>>, r) :
                                   r \in Range(read_lines(todo)) \ {req[1]}}
    /\ sentinel = <<>> /\ pkglist = <<>>
    /\ dirs = {} /\ staged = <<>> /\ updates = {}
    /\ MenuIdle
    /\ answer = "none"

NextDisk ==
    \/ DoMount \/ DoSaveRepo \/ DoDdList \/ DoDdExtract \/ DoUmount
    \/ DoGrab \/ DoLoad
    \/ DoMark \/ DoReadFinished \/ DoReadTodo \/ DoWriteSentinel

SpecDisk == InitDisk /\ [][NextDisk]_vars

\* --------------------------------------------------------------------------
\* The completion ledger on its own: mark_finished() and all_finished()
\* --------------------------------------------------------------------------
LedgerIds == BlankRequests \cup {"menu"}

RECURSIVE LedgerFiles(_)
LedgerFiles(n) ==
    IF n = 0 THEN {<<>>}
    ELSE LedgerFiles(n - 1)
         \cup {append_line(f, r) : f \in LedgerFiles(n - 1), r \in LedgerIds}

InitLedger ==
    /\ todo \in LedgerFiles(MaxLedger) \ {<<>>}
    /\ finished = <<>> /\ sentinel = <<>> /\ pkglist = <<>>
    /\ dirs = {} /\ staged = <<>> /\ updates = {}
    /\ InitProcs({})
    /\ MenuIdle
    /\ answer = "none"

\* mark_finished(user_request, topdir)
LedgerMark(r) ==
    /\ Len(read_lines(finished)) <= MaxLedger
    /\ finished' = mark_finished(finished, r)
    /\ answer' = "none"
    /\ UNCHANGED <<todo, sentinel, pkglist, dirs, staged, updates>>
    /\ UNCHANGED <<procVars, menuVars, outer, made, probe, fopVars>>

\* all_finished(topdir)
LedgerAllFinished ==
    /\ answer' = IF all_finished(read_lines(finished), read_lines(todo))
                 THEN "True" ELSE "False"
    /\ UNCHANGED <<fileVars, procVars, menuVars, outer, made, probe, fopVars>>

DoLedgerMark == \E r \in LedgerIds : LedgerMark(r)

NextLedger == DoLedgerMark \/ LedgerAllFinished

SpecLedger == InitLedger /\ [][NextLedger]_vars

\* --------------------------------------------------------------------------
\* TextMenu
\* --------------------------------------------------------------------------
\* page_height values the menus are built with
PageHeights == {1, 2}

ItemUniverse == {10 * k : k \in 1..MaxItems}

\* the item lists a caller or a provider hands to the menu
ItemLists ==
    UNION {{f \in [1..n -> ItemUniverse] : \A a, b \in 1..n : a # b => f[a] # f[b]} :
              n \in 0..MaxItems}

\* str(n)
str(n) == ToString(n)

\* what the user may type at the prompt
Keys == {"r", "n", "p", "c", "q"} \cup {str(n) : n \in 0..(MaxItems + 1)}

\* a bug num_pages could have: the leftover items get no page
num_pages_floor(its, ph) == Len(its) \div ph

\* TextMenu.num_pages: divmod(len(items), page_height)
num_pages(its, ph) ==
    LET pages == Len(its) \div ph
        leftover == Len(its) % ph
    IN IF leftover # 0 THEN pages + 1 ELSE pages

\* a bug next() could have: the bound is off by one
next_off_by_one(pn, its, ph) == IF pn <= num_pages(its, ph) THEN pn + 1 ELSE pn

\* TextMenu.next
next(pn, its, ph) == IF pn < num_pages(its, ph) THEN pn + 1 ELSE pn

\* TextMenu.prev
prev(pn) == IF pn > 1 THEN pn - 1 ELSE pn

\* a bug refresh() could have: the provider is not tested for being callable
refresh_unconditional(its, rf, result) == result

\* TextMenu.refresh; `result` is what the provider returns when called
refresh(its, rf, result) == IF rf = "callable" THEN result ELSE its

\* list.remove(item): the first occurrence goes
list_remove(sel, item) ==
    LET k == CHOOSE i \in DOMAIN sel :
                 sel[i] = item /\ \A j \in DOMAIN sel : sel[j] = item => i <= j
    IN SubSeq(sel, 1, k - 1) \o SubSeq(sel, k + 1, Len(sel))

\* a bug toggle_item could have: a new selection is put in front
toggle_item_prepend(sel, item) ==
    IF item \in Range(sel) THEN list_remove(sel, item) ELSE <<item>> \o sel

\* TextMenu.toggle_item: the new selected_items
toggle_item(sel, item) ==
    IF item \in Range(sel) THEN list_remove(sel, item) ELSE Append(sel, item)

\* TextMenu.toggle_item: the new is_done
toggle_done(done, mul) == IF ~mul THEN TRUE ELSE done

\* a bug items_on_page could have: every item is offered on every page
items_on_page_all(its, pn, ph) == [k \in 1..Len(its) |-> [n |-> k - 1, i |-> its[k]]]

\* TextMenu.items_on_page: enumerate(items[start_idx:start_idx+page_height],
\* start=start_idx), as records [n |-> 0-based index, i |-> item]
items_on_page(its, pn, ph) ==
    LET start_idx == (pn - 1) * ph IN
    IF start_idx > Len(its) THEN <<>>
    ELSE LET stop == IF start_idx + ph < Len(its) THEN start_idx + ph ELSE Len(its)
         IN [k \in 1..(stop - start_idx) |-> [n |-> start_idx + k - 1,
                                              i |-> its[start_idx + k]]]

\* action_dict: the item a numbered entry toggles when it is called. Every
\* lambda reads the loop variable `i` of action_dict when called, after the
\* loop has ended: `i` then is the last item of the page
closure_item(page, k) == page[Len(page)].i

\* TextMenu.action_dict
action_dict(its, pn, ph) ==
    LET page == items_on_page(its, pn, ph)
        numbered == {str(page[k].n + 1) : k \in DOMAIN page}
    IN [key \in {"r", "n", "p", "c"} \cup numbered |->
          CASE key = "r" -> [op |-> "refresh", item |-> 0]
            [] key = "n" -> [op |-> "next", item |-> 0]
            [] key = "p" -> [op |-> "prev", item |-> 0]
            [] key = "c" -> [op |-> "done", item |-> 0]
            [] OTHER ->
                 LET k == CHOOSE j \in DOMAIN page : str(page[j].n + 1) = key
                 IN [op |-> "toggle", item |-> closure_item(page, k)]]

\* TextMenu.__init__, with a list or with a provider (then refresh() fills in
\* the items)
InitMenu ==
    /\ multi \in BOOLEAN
    /\ page_height \in PageHeights
    /\ refresher \in {"None", "callable"}
    /\ items \in ItemLists
    /\ pagenum = 1 /\ selected_items = <<>> /\ is_done = FALSE
    /\ todo = <<>> /\ finished = <<>> /\ sentinel = <<>> /\ pkglist = <<>>
    /\ dirs = {} /\ staged = <<>> /\ updates = {}
    /\ InitProcs({})
    /\ outer = <<>> /\ made = <<>> /\ probe = <<>>
    /\ tree = <<>> /\ args = NoArgs /\ fileop = NoOp
    /\ answer = "none"

\* TextMenu.run: one turn of the loop: k = input(...), then
\* action_dict().get(k, self.invalid)()
Input(k, result) ==
    /\ ~is_done
    /\ LET acts == action_dict(items, pagenum, page_height)
           action == IF k \in DOMAIN acts THEN acts[k]
                     ELSE [op |-> "invalid", item |-> 0]
       IN /\ items' = IF action.op = "refresh"
                      THEN refresh(items, refresher, result) ELSE items
          /\ pagenum' = CASE action.op = "next" -> next(pagenum, items, page_height)
                          [] action.op = "prev" -> prev(pagenum)
                          [] OTHER -> pagenum
          /\ selected_items' = IF action.op = "toggle"
                               THEN toggle_item(selected_items, action.item)
                               ELSE selected_items
          /\ is_done' = CASE action.op = "done" -> TRUE
                          [] action.op = "toggle" -> toggle_done(is_done, multi)
                          [] OTHER -> is_done
    /\ UNCHANGED <<refresher, multi, page_height>>
    /\ UNCHANGED <<fileVars, procVars, outer, answer, made, probe, fopVars>>

\* the provider is called, and its result drawn, only by refresh()
DoInput ==
    \E k \in Keys :
       \E result \in (IF k = "r" /\ refresher = "callable" THEN ItemLists ELSE {items}) :
          Input(k, result)

NextMenu == DoInput

SpecMenu == InitMenu /\ [][NextMenu]_vars

\* --------------------------------------------------------------------------
\* interactive(): the device menu, the per-device flow dd_menu, finish('menu')
\* --------------------------------------------------------------------------
\* TextMenu.__init__: page_height=20
DefaultPageHeight == 20

\* the block devices blkid may list
Devices == {"/dev/sdb1", "/dev/sdc1", "/dev/sdd1", "/dev/sr0"}

\* what get_deviceinfo() may return
DeviceLists ==
    UNION {{l \in [1..k -> Devices] : \A i, j \in 1..k : i # j => l[i] # l[j]} :
              k \in 0..2}

\* the TextMenu object the menu variables hold
ThisMenu ==
    [items |-> items, refresher |-> refresher, multi |-> multi,
     page_height |-> page_height, pagenum |-> pagenum,
     selected_items |-> selected_items, is_done |-> is_done]

\* mounted(dev, options), the call of dd_menu: the arguments as
\* mounted(dev, mnt=None, options=None) receives them, the second one as mnt
mounted_pos(dev, a2) ==
    [dev |-> dev, mnt |-> IF a2 = "None" THEN <<>> ELSE <<a2, 0>>, options |-> "None"]

\* dd_menu: options = "loop" if dev.endswith('.iso') else None
dd_menu_options(dev) == IF endswith_iso(dev) THEN "loop" ELSE "None"

\* interactive(): device_menu = TextMenu(get_deviceinfo, header="HEADER")
InitInteractive ==
    /\ todo \in {append_line(<<>>, "menu"),
                 append_line(append_line(<<>>, "LABEL=OEMDRV"), "menu")}
    /\ finished = <<>> /\ sentinel = <<>> /\ pkglist = <<>>
    /\ dirs = {} /\ staged = <<>> /\ updates = {}
    /\ req = [p \in {1} |-> "menu"]
    /\ pc = [p \in {1} |-> "device_menu"]
    /\ call = [p \in {1} |-> NoCall]
    /\ frames = [p \in {1} |-> <<>>]
    /\ held = [p \in {1} |-> <<>>]
    /\ grabbed = [p \in {1} |-> FALSE]
    /\ modules = [p \in {1} |-> {}]
    /\ loaded = [p \in {1} |-> "none"]
    /\ rdFinished = [p \in {1} |-> <<>>]
    /\ rdTodo = [p \in {1} |-> <<>>]
    /\ cmds = [p \in {1} |-> <<>>]
    /\ items \in DeviceLists
    /\ refresher = "callable" /\ multi = FALSE /\ page_height = DefaultPageHeight
    /\ pagenum = 1 /\ selected_items = <<>> /\ is_done = FALSE
    /\ outer = <<>> /\ made = <<>> /\ probe = <<>>
    /\ tree = <<>> /\ args = NoArgs /\ fileop = NoOp
    /\ answer = "none"

\* interactive(): `while True: devlist = device_menu.run()`, the call
DeviceMenuRun(p) ==
    /\ pc[p] = "device_menu"
    /\ pc' = [pc EXCEPT ![p] = "run"]
    /\ UNCHANGED <<req, call, frames, held, grabbed, modules, loaded, rdFinished,
                   rdTodo, cmds>>
    /\ UNCHANGED <<fileVars, menuVars, outer, answer, made, probe, fopVars>>

\* TextMenu.run of the device menu or of an image menu: one turn of the loop
MenuInput(p, k, result) ==
    /\ pc[p] \in {"run", "iso_run"}
    /\ Input(k, result)

\* interactive(): device_menu.run() returns selected_items; `break` when it
\* is empty, else `for dev in devlist: dd_menu(dev.device)`
DeviceMenuReturn(p) ==
    /\ pc[p] = "run"
    /\ is_done
    /\ IF selected_items = <<>>
       THEN /\ pc' = [pc EXCEPT ![p] = "grab"]
            /\ UNCHANGED call
       ELSE /\ pc' = [pc EXCEPT ![p] = "dd_menu"]
            /\ call' = [call EXCEPT ![p] =
                           [dev |-> Head(selected_items), opts |-> "None",
                            pending |-> Tail(selected_items)]]
    /\ UNCHANGED <<req, frames, held, grabbed, modules, loaded, rdFinished,
                   rdTodo, cmds>>
    /\ UNCHANGED <<fileVars, menuVars, outer, answer, made, probe, fopVars>>

\* dd_menu(dev): `with mounted(dev, options) as mnt`, find_repos, find_isos,
\* and the branch taken: repo_menu, iso_menu (a new TextMenu(isos)), or the
\* "No driver disks found" message and the end of the block
DdMenuMount(p, ok) ==
    /\ pc[p] = "dd_menu"
    /\ Cardinality(dirs) < MaxMounts
    /\ LET a == mounted_pos(call[p].dev, dd_menu_options(call[p].dev))
           mnt == mount_point(a.mnt, dirs)
           m == [dev |-> a.dev, mnt |-> mnt, opts |-> a.options]
           fr == [dev |-> a.dev, mnt |-> mnt, pending |-> call[p].pending]
           repos == find_repos(a.dev)
           isos == find_isos(a.dev)
       IN /\ dirs' = mount_dirs(a.mnt, dirs)
          /\ cmds' = [cmds EXCEPT ![p] =
                         Append(@, mount_cmd(a.dev, mnt, a.options, ok))]
          /\ IF ~ok
             THEN /\ Raise(p)
                  /\ UNCHANGED <<frames, menuVars, outer>>
             ELSE /\ held' = [held EXCEPT ![p] = Append(held[p], m)]
                  /\ frames' = [frames EXCEPT ![p] = Append(frames[p], fr)]
                  /\ IF repos # <<>>
                     THEN /\ pc' = [pc EXCEPT ![p] = "repo_menu"]
                          /\ UNCHANGED <<menuVars, outer>>
                     ELSE IF isos # <<>>
                     THEN /\ pc' = [pc EXCEPT ![p] = "iso_run"]
                          /\ outer' = Append(outer, ThisMenu)
                          /\ items' = isos
                          /\ refresher' = "None"
                          /\ multi' = FALSE
                          /\ page_height' = DefaultPageHeight
                          /\ pagenum' = 1
                          /\ selected_items' = <<>>
                          /\ is_done' = FALSE
                     ELSE /\ pc' = [pc EXCEPT ![p] = "dd_umount"]
                          /\ UNCHANGED <<menuVars, outer>>
    /\ UNCHANGED <<req, call, grabbed, modules, loaded, rdFinished, rdTodo>>
    /\ UNCHANGED <<todo, finished, sentinel, pkglist, staged, updates>>
    /\ UNCHANGED <<answer, made, probe, fopVars>>

\* repo_menu(repos): drivers = sum(dd_list(r) for r in repos). sum() starts
\* from the integer 0: either dd_list fails (CalledProcessError) or 0 + list
\* raises TypeError; no menu is opened
RepoMenu(p) ==
    /\ pc[p] = "repo_menu"
    /\ Raise(p)
    /\ UNCHANGED <<req, call, frames, grabbed, modules, loaded, rdFinished,
                   rdTodo, cmds>>
    /\ UNCHANGED <<fileVars, menuVars, outer, answer, made, probe, fopVars>>

\* iso_menu(isos): menu.run() returns, `for iso in ...: dd_menu(iso)`; the
\* menu object is dropped and the menu that was running before is back
IsoMenuReturn(p) ==
    /\ pc[p] = "iso_run"
    /\ is_done
    /\ LET back == outer[Len(outer)]
       IN /\ outer' = SubSeq(outer, 1, Len(outer) - 1)
          /\ items' = back.items
          /\ refresher' = back.refresher
          /\ multi' = back.multi
          /\ page_height' = back.page_height
          /\ pagenum' = back.pagenum
          /\ selected_items' = back.selected_items
          /\ is_done' = back.is_done
    /\ IF selected_items = <<>>
       THEN /\ pc' = [pc EXCEPT ![p] = "dd_umount"]
            /\ UNCHANGED call
       ELSE /\ pc' = [pc EXCEPT ![p] = "dd_menu"]
            /\ call' = [call EXCEPT ![p] =
                           [dev |-> Head(selected_items), opts |-> "None",
                            pending |-> Tail(selected_items)]]
    /\ UNCHANGED <<req, frames, held, grabbed, modules, loaded, rdFinished,
                   rdTodo, cmds>>
    /\ UNCHANGED <<fileVars, answer, made, probe, fopVars>>

\* dd_menu(dev): the `with` block ended normally, umount(dev); then the `for`
\* loop that made the call goes on, or ends: in iso_menu, whose caller's
\* `with` block then ends too, or in interactive(), which loops
DdMenuUmount(p, ok) ==
    /\ pc[p] = "dd_umount"
    /\ LET frs == frames[p]
           top == frs[Len(frs)]
           rest == SubSeq(frs, 1, Len(frs) - 1)
       IN /\ held' = [held EXCEPT ![p] = mounted_on_exit(held[p], top.dev)]
          /\ cmds' = [cmds EXCEPT ![p] = Append(@, umount_cmd(top.dev))]
          /\ frames' = [frames EXCEPT ![p] = rest]
          /\ IF top.pending # <<>>
             THEN /\ pc' = [pc EXCEPT ![p] = "dd_menu"]
                  /\ call' = [call EXCEPT ![p] =
                                 [dev |-> Head(top.pending), opts |-> "None",
                                  pending |-> Tail(top.pending)]]
             ELSE /\ pc' = [pc EXCEPT ![p] =
                               IF rest = <<>> THEN "device_menu" ELSE "dd_umount"]
                  /\ UNCHANGED call
    /\ UNCHANGED <<req, grabbed, modules, loaded, rdFinished, rdTodo>>
    /\ UNCHANGED <<fileVars, menuVars, outer, answer, made, probe, fopVars>>

DoDeviceMenuRun    == \E p \in DOMAIN pc : DeviceMenuRun(p)
DoMenuInput ==
    \E p \in DOMAIN pc, k \in Keys :
       \E result \in (IF k = "r" /\ refresher = "callable" THEN DeviceLists
                      ELSE {items}) :
          MenuInput(p, k, result)
DoDeviceMenuReturn == \E p \in DOMAIN pc : DeviceMenuReturn(p)
DoDdMenuMount      == \E p \in DOMAIN pc, ok \in BOOLEAN : DdMenuMount(p, ok)
DoRepoMenu         == \E p \in DOMAIN pc : RepoMenu(p)
DoIsoMenuReturn    == \E p \in DOMAIN pc : IsoMenuReturn(p)
DoDdMenuUmount     == \E p \in DOMAIN pc, ok \in BOOLEAN : DdMenuUmount(p, ok)

NextInteractive ==
    \/ DoDeviceMenuRun \/ DoMenuInput \/ DoDeviceMenuReturn
    \/ DoDdMenuMount \/ DoRepoMenu \/ DoIsoMenuReturn \/ DoDdMenuUmount
    \/ DoGrab \/ DoLoad
    \/ DoMark \/ DoReadFinished \/ DoReadTodo \/ DoWriteSentinel

SpecInteractive == InitInteractive /\ [][NextInteractive]_vars

\* --------------------------------------------------------------------------
\* mkdir_seq on its own, over directories left by earlier runs
\* --------------------------------------------------------------------------
\* the stems the program calls mkdir_seq with
Stems == {"/media/DD-", "/run/install/DD-"}

InitMkdir ==
    /\ dirs \in SUBSET (Stems \X (1..MaxSuffix))
    /\ todo = <<>> /\ finished = <<>> /\ sentinel = <<>> /\ pkglist = <<>>
    /\ staged = <<>> /\ updates = {}
    /\ InitProcs({})
    /\ MenuIdle
    /\ answer = "none"

\* mkdir_seq(stem): the directory is made and its path returned
MkdirSeq(stem) ==
    /\ Len(made) < MaxCalls
    /\ LET n == mkdir_seq(stem, dirs)
       IN /\ dirs' = dirs \cup {<<stem, n>>}
          /\ made' = Append(made, <<stem, n>>)
    /\ UNCHANGED <<todo, finished, sentinel, pkglist, staged, updates>>
    /\ UNCHANGED <<procVars, menuVars, outer, answer, probe, fopVars>>

DoMkdirSeq == \E stem \in Stems : MkdirSeq(stem)

NextMkdir == DoMkdirSeq

SpecMkdir == InitMkdir /\ [][NextMkdir]_vars

\* --------------------------------------------------------------------------
\* mkdir_seq called by several processes at once: each turn of the loop of
\* each call is a step
\* --------------------------------------------------------------------------
\* a bug mkdir_seq could have: makedirs(dirname, exist_ok=True)
Makedirs_exist_ok(p) ==
    /\ probe[p].ret = <<>>
    /\ LET dirname == <<probe[p].stem, probe[p].n>>
       IN /\ dirs' = dirs \cup {dirname}
          /\ probe' = [probe EXCEPT ![p].ret = dirname]
          /\ made' = Append(made, dirname)
    /\ UNCHANGED <<todo, finished, sentinel, pkglist, staged, updates>>
    /\ UNCHANGED <<procVars, menuVars, outer, answer, fopVars>>

\* mkdir_seq: one turn of `while True`: os.makedirs(stem + str(n)) either
\* makes the directory, which is returned, or raises FileExistsError, and
\* n += 1; the mkdir(2) under makedirs is atomic
Makedirs(p) ==
    /\ probe[p].ret = <<>>
    /\ LET dirname == <<probe[p].stem, probe[p].n>>
       IN IF dirname \in dirs
          THEN /\ probe' = [probe EXCEPT ![p].n = @ + 1]
               /\ UNCHANGED <<dirs, made>>
          ELSE /\ dirs' = dirs \cup {dirname}
               /\ probe' = [probe EXCEPT ![p].ret = dirname]
               /\ made' = Append(made, dirname)
    /\ UNCHANGED <<todo, finished, sentinel, pkglist, staged, updates>>
    /\ UNCHANGED <<procVars, menuVars, outer, answer, fopVars>>

\* each process has entered mkdir_seq(stem): n = 1
InitRace ==
    /\ dirs \in SUBSET (Stems \X (1..MaxSuffix))
    /\ probe \in [Procs -> {[stem |-> s, n |-> 1, ret |-> <<>>] : s \in Stems}]
    /\ todo = <<>> /\ finished = <<>> /\ sentinel = <<>> /\ pkglist = <<>>
    /\ staged = <<>> /\ updates = {}
    /\ InitProcs({})
    /\ items = <<>> /\ refresher = "None" /\ multi = FALSE /\ page_height = 1
    /\ pagenum = 1 /\ selected_items = <<>> /\ is_done = FALSE
    /\ outer = <<>> /\ made = <<>>
    /\ tree = <<>> /\ args = NoArgs /\ fileop = NoOp
    /\ answer = "none"

DoMakedirs == \E p \in DOMAIN probe : Makedirs(p)

NextRace == DoMakedirs

\* every process goes on running: a call is not suspended for ever
SpecRace ==
    InitRace /\ [][NextRace]_vars /\ \A p \in Procs : WF_vars(Makedirs(p))

\* --------------------------------------------------------------------------
\* copy_files / move_files on their own, over small file trees
\* --------------------------------------------------------------------------
FilePaths ==
    { <<"src", "file1">>, <<"src", "sub", "file2">>, <<"dest", "file1">>,
      <<"dest", "sub", "file3">>, <<"dest2", "file4">> }

DestDirs == { <<"dest">>, <<"dest", "sub">> }

\* the lists of at most n different files out of S
FileLists(S, n) ==
    UNION {{l \in [1..k -> S] : \A i, j \in 1..k : i # j => l[i] # l[j]} :
              k \in 0..n}

\* each file holds its own first path as content
InitFiles ==
    /\ \E S \in SUBSET FilePaths :
          /\ tree = [q \in S |-> q]
          /\ args \in [files : FileLists(S, MaxFiles) \ {<<>>}, destdir : DestDirs]
    /\ fileop = NoOp
    /\ todo = <<>> /\ finished = <<>> /\ sentinel = <<>> /\ pkglist = <<>>
    /\ dirs = {} /\ staged = <<>> /\ updates = {}
    /\ InitProcs({})
    /\ items = <<>> /\ refresher = "None" /\ multi = FALSE /\ page_height = 1
    /\ pagenum = 1 /\ selected_items = <<>> /\ is_done = FALSE
    /\ outer = <<>> /\ made = <<>> /\ probe = <<>>
    /\ answer = "none"

CopyFiles ==
    /\ fileop.op = "none"
    /\ LET r == copy_files(tree, args.files, args.destdir)
       IN /\ tree' = r.tree
          /\ fileop' = [op |-> "copy_files", raised |-> r.err]
    /\ UNCHANGED <<args, fileVars, procVars, menuVars, outer, answer, made, probe>>

MoveFiles ==
    /\ fileop.op = "none"
    /\ LET r == move_files(tree, args.files, args.destdir)
       IN /\ tree' = r.tree
          /\ fileop' = [op |-> "move_files", raised |-> r.err]
    /\ UNCHANGED <<args, fileVars, procVars, menuVars, outer, answer, made, probe>>

NextFiles == CopyFiles \/ MoveFiles

SpecFiles == InitFiles /\ [][NextFiles]_vars

\* --------------------------------------------------------------------------
\* handle_dd run again and again over the same /updates: the files that
\* dd_extract unpacks and grab_driver_files copies and moves
\* --------------------------------------------------------------------------
\* grab_driver_files(outdir="/updates")
outdir == <<"updates">>

\* module_updates_dir = '/lib/modules/%s/updates' % os.uname()[2]
module_updates_dir == <<"lib", "modules", "kver", "updates">>

\* firmware_updates_dir = '/lib/firmware/updates'
firmware_updates_dir == <<"lib", "firmware", "updates">>

\* process_driver_disk: the repositories it meets under a source: those of
\* the source, then those of each image inside it
RECURSIVE AllReposOf(_)
AllReposOf(dev) ==
    Range(find_repos(dev)) \cup UNION {AllReposOf(i) : i \in Range(find_isos(dev))}

\* dd_extract(rpm_path, "/updates"): the files the package is unpacked to
PackageFiles(source) ==
    CASE source \in {"sr0/kmod.rpm", "nested/kmod.rpm", "inner/a/kmod.rpm"} ->
            { <<"updates", "lib", "modules", "kver", "extra", "kmod.ko">> }
      [] source = "sr0/tool.rpm" -> { <<"updates", "usr", "bin", "tool">> }
      [] source = "nested/fw.rpm" -> { <<"updates", "lib", "firmware", "fw.bin">> }
      [] source = "dd/net.rpm" ->
            { <<"updates", "lib", "modules", "kver", "extra", "net.ko">>,
              <<"updates", "lib", "firmware", "net.bin">> }
      [] OTHER -> {}

\* fnmatch.fnmatch(name, pattern), for the names and the pattern in use
fnmatch(name, pattern) ==
    IF pattern = "*.ko*" THEN name \in {"kmod.ko", "net.ko"} ELSE FALSE

\* iter_files(topdir, pattern): the files under topdir, at any depth, whose
\* name matches; pattern "None" stands for None
iter_files(t, topdir, pattern) ==
    {f \in DOMAIN t :
        /\ Len(topdir) < Len(f)
        /\ SubSeq(f, 1, Len(topdir)) = topdir
        /\ pattern = "None" \/ fnmatch(basename(f), pattern)}

\* list(iter_files(...)): os.walk yields the directories in any order
Orderings(S) ==
    {l \in [1..Cardinality(S) -> S] : \A i, j \in DOMAIN l : i # j => l[i] # l[j]}

\* os.path.basename(m).split('.ko')[0]
modname(m) ==
    CASE basename(m) = "kmod.ko" -> "kmod"
      [] basename(m) = "net.ko" -> "net"
      [] OTHER -> basename(m)

\* the runs, one after the other
Runs == 1..MaxRuns

\* main() for the first run; the later runs have not been started
InitRerun ==
    /\ todo \in TodoFiles(Requests)
    /\ req \in [Runs -> Range(read_lines(todo))]
    /\ pc = [p \in Runs |-> IF p = 1 THEN "process" ELSE "waiting"]
    /\ call = [p \in Runs |-> NoCall]
    /\ frames = [p \in Runs |-> <<>>]
    /\ held = [p \in Runs |-> <<>>]
    /\ grabbed = [p \in Runs |-> FALSE]
    /\ modules = [p \in Runs |-> {}]
    /\ loaded = [p \in Runs |-> "none"]
    /\ rdFinished = [p \in Runs |-> <<>>]
    /\ rdTodo = [p \in Runs |-> <<>>]
    /\ cmds = [p \in Runs |-> <<>>]
    /\ finished = <<>> /\ sentinel = <<>> /\ pkglist = <<>>
    /\ dirs = {} /\ staged = <<>> /\ updates = {}
    /\ items = <<>> /\ refresher = "None" /\ multi = FALSE /\ page_height = 1
    /\ pagenum = 1 /\ selected_items = <<>> /\ is_done = FALSE
    /\ outer = <<>> /\ made = <<>> /\ probe = <<>>
    /\ tree = <<>> /\ args = NoArgs /\ fileop = NoOp
    /\ answer = "none"

\* main(): the program is run again once the run before has ended
Invoke(p) ==
    /\ pc[p] = "waiting"
    /\ pc[p - 1] \in {"done", "failed"}
    /\ pc' = [pc EXCEPT ![p] = "process"]
    /\ UNCHANGED fileVars
    /\ UNCHANGED <<req, cmds, call, frames, held, grabbed, modules, loaded,
                   rdFinished, rdTodo>>
    /\ UNCHANGED idle

\* handle_dd: process_driver_disk(dd_dev) with no tool failing: every
\* package of every repository of the source and of its images is unpacked
\* into /updates, each file holding the package it came from
ProcessDriverDisk(p) ==
    /\ pc[p] = "process"
    /\ LET srcs == {d.source : d \in UNION {Range(RepoDrivers(r)) :
                                               r \in AllReposOf(DevOf(req[p]))}}
           new == UNION {PackageFiles(s) : s \in srcs}
       IN /\ updates' = updates \cup srcs
          /\ tree' = [f \in DOMAIN tree \cup new |->
                        IF f \in new
                        THEN CHOOSE s \in srcs : f \in PackageFiles(s)
                        ELSE tree[f]]
    /\ pc' = [pc EXCEPT ![p] = "grab_files"]
    /\ UNCHANGED <<todo, finished, sentinel, pkglist, dirs, staged>>
    /\ UNCHANGED <<req, cmds, call, frames, held, grabbed, modules, loaded,
                   rdFinished, rdTodo>>
    /\ UNCHANGED <<menuVars, outer, answer, made, probe, args, fileop>>

\* finish(): modules = grab_driver_files(): the two lists are made, then
\* copy_files and move_files run in turn; each is a check_call, the first
\* that fails raises and the rest is not run
GrabDriverFiles(p, mods, firmware) ==
    /\ pc[p] = "grab_files"
    /\ mods \in Orderings(iter_files(tree, outdir \o <<"lib", "modules">>, "*.ko*"))
    /\ firmware \in Orderings(iter_files(tree, outdir \o <<"lib", "firmware">>, "None"))
    /\ LET r1 == copy_files(tree, mods, module_updates_dir)
           r2 == copy_files(r1.tree, firmware, firmware_updates_dir)
           r3 == move_files(r2.tree, mods, outdir \o module_updates_dir)
           r4 == move_files(r3.tree, firmware, outdir \o firmware_updates_dir)
           last == IF r1.err THEN r1 ELSE IF r2.err THEN r2
                   ELSE IF r3.err THEN r3 ELSE r4
       IN /\ tree' = last.tree
          /\ fileop' = [op |-> "grab_driver_files", raised |-> last.err]
          /\ IF last.err
             THEN /\ Raise(p)
                  /\ UNCHANGED <<modules, grabbed>>
             ELSE /\ modules' = [modules EXCEPT ![p] =
                                    {modname(mods[i]) : i \in DOMAIN mods}]
                  /\ grabbed' = [grabbed EXCEPT ![p] = TRUE]
                  /\ pc' = [pc EXCEPT ![p] = "load"]
                  /\ UNCHANGED held
    /\ UNCHANGED fileVars
    /\ UNCHANGED <<req, cmds, call, frames, loaded, rdFinished, rdTodo>>
    /\ UNCHANGED <<menuVars, outer, answer, made, probe, args>>

DoInvoke            == \E p \in DOMAIN pc \ {1} : Invoke(p)
DoProcessDriverDisk == \E p \in DOMAIN pc : ProcessDriverDisk(p)
DoGrabDriverFiles ==
    \E p \in DOMAIN pc :
       \E mods \in Orderings(iter_files(tree, outdir \o <<"lib", "modules">>, "*.ko*")),
          firmware \in Orderings(iter_files(tree, outdir \o <<"lib", "firmware">>, "None")) :
          GrabDriverFiles(p, mods, firmware)

NextRerun ==
    \/ DoInvoke \/ DoProcessDriverDisk \/ DoGrabDriverFiles \/ DoLoad
    \/ DoMark \/ DoReadFinished \/ DoReadTodo \/ DoWriteSentinel

SpecRerun == InitRerun /\ [][NextRerun]_vars

\* --------------------------------------------------------------------------
\* Properties
\* --------------------------------------------------------------------------
TodoSet == Range(read_lines(todo))

FinishedSet == Range(read_lines(finished))

\* the number of append_line("/tmp/dd.done", ...) calls made so far
SentinelWrites == Len(read_lines(sentinel))

\* C1: whenever a step writes /tmp/dd.done, every request listed in dd_todo
\* is, at that moment, listed in dd_finished.
C1_SentinelOnlyWhenAllMarked ==
    [][sentinel' # sentinel => TodoSet \subseteq FinishedSet]_vars

\* C1 witness: the sentinel was written with two different requests to do
C1_Witness ==
    /\ sentinel # <<>>
    /\ Cardinality(TodoSet) = 2

\* C2: at most one write to /tmp/dd.done ever occurs.
C2_SentinelWrittenOnce == SentinelWrites <= 1

\* C3: when every to-do request has a process and all processes have run
\* finish() to its end, /tmp/dd.done exists.
C3_Convergence ==
    (/\ \A p \in DOMAIN pc : pc[p] = "done"
     /\ TodoSet \subseteq {req[p] : p \in DOMAIN pc})
    => sentinel # <<>>

\* C3 witness: two processes, one per request, have both ended and the
\* sentinel is there
C3_Witness ==
    /\ \A p \in DOMAIN pc : pc[p] = "done"
    /\ Cardinality(TodoSet) = 2
    /\ TodoSet = {req[p] : p \in DOMAIN pc}
    /\ sentinel # <<>>

\* C4: all_finished() answers true exactly when every identifier of the
\* to-do ledger has a line in the finished ledger.
C4_AllFinishedIffTodoMarked ==
    answer # "none" => (answer = "True" <=> TodoSet \subseteq FinishedSet)

\* C5: a process that has ended, normally or by a failure, holds no mount
\* for which no umount was issued.
C5_MountsReleased ==
    \A p \in DOMAIN pc : pc[p] \in {"done", "failed"} => held[p] = <<>>

\* C6: the request of an invocation is in the finished ledger only after
\* grab_driver_files() returned and load_drivers() was run; an invocation
\* that failed has left the finished ledger without its request and has
\* written no sentinel.
C6_MarkedOnlyAfterActivation ==
    \A p \in DOMAIN pc :
       /\ req[p] \in FinishedSet => grabbed[p] /\ loaded[p] \in {"ok", "failed"}
       /\ pc[p] = "failed" => req[p] \notin FinishedSet /\ sentinel = <<>>

\* C6 witness: extraction went through and the activation failed, with an
\* earlier request's line in the finished ledger
C6_Witness ==
    \E p \in DOMAIN pc :
       /\ pc[p] = "failed"
       /\ frames[p] = <<>>
       /\ updates # {}
       /\ finished # <<>>

\* the number n is displayed next to an item of the current page
Shown(n) ==
    LET page == items_on_page(items, pagenum, page_height)
    IN \E k \in DOMAIN page : page[k].n + 1 = n

\* the selection, as a set, after item x was toggled
Toggled(sel, x) == IF x \in Range(sel) THEN Range(sel) \ {x} ELSE Range(sel) \cup {x}

\* C7: entering the number n displayed on the current page toggles the item
\* at index n-1 of the sequence (items[n] here) and no other item.
C7_NumberTogglesItsItem ==
    [][\A n \in 1..Len(items) :
          (Shown(n) /\ Input(str(n), items))
          => Range(selected_items') = Toggled(selected_items, items[n])]_vars

\* C8: in single-select mode a valid item choice sets the done flag in the
\* same step and leaves exactly the chosen item selected; a single-select
\* menu never holds more than one selected item.
C8_SingleSelectReturnsChoice ==
    /\ [][\A n \in 1..Len(items) :
             (~multi /\ Shown(n) /\ Input(str(n), items))
             => is_done' /\ selected_items' = <<items[n]>>]_vars
    /\ [](~multi => Len(selected_items) <= 1)

\* C9: in multi-select mode choosing a displayed item that is selected
\* removes it from the selection, leaves the done flag false and the page
\* number and items as they were; toggling an item twice restores the
\* selection.
C9_ChoosingSelectedDeselects ==
    /\ [][\A n \in 1..Len(items) :
             (multi /\ Shown(n) /\ items[n] \in Range(selected_items)
                    /\ Input(str(n), items))
             => /\ Range(selected_items') = Range(selected_items) \ {items[n]}
                /\ ~is_done'
                /\ pagenum' = pagenum /\ items' = items]_vars
    /\ [](\A x \in ItemUniverse :
             Range(toggle_item(toggle_item(selected_items, x), x))
                = Range(selected_items))

\* what 'n' and 'p' leave alone
NavFrame ==
    (Input("n", items) \/ Input("p", items))
    => UNCHANGED <<items, selected_items, is_done, refresher, multi, page_height>>

\* C10 as claimed: 'next' does nothing on the last page and 'prev' nothing on
\* page 1; in every other state they move the page number by one; nothing
\* else changes.
C10_NextPrevAsClaimed ==
    /\ [](/\ next(pagenum, items, page_height)
             = IF pagenum = num_pages(items, page_height)
               THEN pagenum ELSE pagenum + 1
          /\ prev(pagenum) = IF pagenum = 1 THEN pagenum ELSE pagenum - 1)
    /\ [][NavFrame]_vars

\* C10 amended: 'next' does nothing when no further page exists, that is on
\* the last page, on an empty menu (0 pages) and on a page number beyond the
\* last page; 'prev' does nothing on page 1; in every other state they move
\* the page number by exactly one; nothing else changes.
C10_NextPrev ==
    /\ [](/\ next(pagenum, items, page_height)
             = IF pagenum >= num_pages(items, page_height)
               THEN pagenum ELSE pagenum + 1
          /\ prev(pagenum) = IF pagenum = 1 THEN pagenum ELSE pagenum - 1)
    /\ [][NavFrame]_vars
    /\ [][Input("n", items) => pagenum' = next(pagenum, items, page_height)]_vars
    /\ [][Input("p", items) => pagenum' = prev(pagenum)]_vars

\* C10 witness: the middle page of three, where both keys move the page
C10_Witness ==
    /\ pagenum = 2
    /\ num_pages(items, page_height) = 3
    /\ ~is_done

\* ceil(L / P): the least number of pages of P places that hold L items
CeilDiv(L, P) == CHOOSE n \in 0..L : n * P >= L /\ \A m \in 0..(n - 1) : m * P < L

\* the 0-based indices that page k displays
PageIndices(k) ==
    LET page == items_on_page(items, k, page_height)
    IN {page[j].n : j \in DOMAIN page}

\* C11: the page count is ceil(L/P) (45 items at page size 20 give 3 pages);
\* page k displays exactly the items with indices in [(k-1)P, kP) that exist,
\* each next to its own index, numbered continuously, so that every item is
\* on exactly one page.
C11_Pagination ==
    LET L == Len(items)
        P == page_height
        N == num_pages(items, page_height)
    IN /\ N = CeilDiv(L, P)
       /\ num_pages([i \in 1..45 |-> i], 20) = 3
       /\ \A k \in 1..(N + 1) :
             LET page == items_on_page(items, k, P) IN
             /\ PageIndices(k) = {n \in 0..(L - 1) : (k - 1) * P <= n /\ n < k * P}
             /\ \A j \in DOMAIN page :
                   /\ page[j].n = (k - 1) * P + j - 1
                   /\ page[j].i = items[page[j].n + 1]
       /\ \A n \in 0..(L - 1) :
             Cardinality({k \in 1..N : n \in PageIndices(k)}) = 1

\* C11 witness: the menu shows its last page, which is not full
C11_Witness ==
    /\ Len(items) = 3 /\ page_height = 2 /\ pagenum = 2
    /\ Len(items_on_page(items, pagenum, page_height)) = 1

\* the numbers the current page displays: those of the items with indices
\* in [(pagenum-1)P, pagenum*P)
NumbersOnPage ==
    {n \in 1..Len(items) :
        (pagenum - 1) * page_height < n /\ n <= pagenum * page_height}

\* the token k is neither a control key nor a number displayed on the page
InvalidKey(k) ==
    /\ k \notin {"n", "p", "r", "c"}
    /\ \A n \in NumbersOnPage : k # str(n)

\* C12: a token that is neither a control key nor the number of an item of
\* the current page changes nothing: no turn of the loop taken with it leads
\* to another state, and the loop goes on (the done flag stays false).
C12_InvalidInputRejected ==
    ~is_done =>
       \A k \in Keys :
          InvalidKey(k) =>
             /\ k \notin DOMAIN action_dict(items, pagenum, page_height)
             /\ ~ENABLED (Input(k, items) /\ vars' # vars)

\* C12 witness: page 2 of a menu with a selection, where the numbers of the
\* items of pages 1 and 3 are invalid
C12_Witness ==
    /\ ~is_done /\ Len(items) = 3 /\ page_height = 1 /\ pagenum = 2
    /\ selected_items # <<>>
    /\ InvalidKey("1") /\ InvalidKey("3") /\ ~InvalidKey("2")

\* C13: refresh puts the provider's result in place of the items and changes
\* nothing else (selection, done flag, page number); without a provider it
\* changes nothing at all, whatever a provider would have returned. (A step
\* is a refresh that got `result` only if `result` is the old or the new
\* item sequence.)
C13_RefreshFrame ==
    /\ [][\A result \in {items, items'} :
             Input("r", result)
             => /\ items' = (IF refresher = "callable" THEN result ELSE items)
                /\ UNCHANGED <<selected_items, is_done, pagenum, refresher, multi,
                               page_height>>]_vars
    /\ [](refresher = "None" /\ ~is_done
           => \A result \in {l \in ItemLists : Len(l) <= 1} :
                 ~ENABLED (Input("r", result) /\ vars' # vars))

\* C13 witness: after a refresh a selected item is gone from the items and
\* the page number lies beyond the last page
C13_Witness ==
    /\ refresher = "callable"
    /\ selected_items # <<>>
    /\ ~(Range(selected_items) \subseteq Range(items))
    /\ pagenum > num_pages(items, page_height)

\* the source a process was started on
Source(p) == DevOf(req[p])

\* every repository under the mount of `dev` and of the images inside it
RECURSIVE AllRepos(_)
AllRepos(dev) ==
    Range(find_repos(dev)) \cup UNION {AllRepos(i) : i \in Range(find_isos(dev))}

\* every top-level image of `dev` and of the images inside it
RECURSIVE AllImages(_)
AllImages(dev) ==
    Range(find_isos(dev)) \cup UNION {AllImages(i) : i \in Range(find_isos(dev))}

\* how deep the images of `dev` nest, `dev` counted
RECURSIVE Depth(_)
Depth(dev) ==
    LET inner == {Depth(i) : i \in Range(find_isos(dev))}
    IN IF inner = {} THEN 1 ELSE 1 + CHOOSE d \in inner : \A e \in inner : e <= d

\* the packages a repository lists
Packages(repo) == Range(RepoDrivers(repo))

\* process_driver_disk(source) has returned to handle_dd: the source itself
\* was unmounted
Returned(p) == \E i \in DOMAIN cmds[p] : cmds[p][i] = umount_cmd(Source(p))

\* the commands of one kind a process has run, in order
Commands(p, kind) == SelectSeq(cmds[p], LAMBDA c : c.cmd = kind)

\* the staging directories that were made for `repo`
StagedFor(repo) == {n \in DOMAIN staged : staged[n].repo = repo}

\* C15: once process_driver_disk has returned, every repository under the
\* source and under every image nested in it has one staging directory and
\* all its packages extracted, nothing else was staged or extracted, and each
\* image was mounted exactly once, with the loop option; the calls never nest
\* deeper than the images do.
C15_ReposOfNestedImagesProcessed ==
    \A p \in DOMAIN pc :
       /\ Len(frames[p]) <= Depth(Source(p))
       /\ Returned(p) =>
             /\ \A repo \in AllRepos(Source(p)) :
                   /\ Cardinality(StagedFor(repo)) = 1
                   /\ \A d \in Packages(repo) : d.source \in updates
             /\ {staged[n].repo : n \in DOMAIN staged} = AllRepos(Source(p))
             /\ updates = {d.source : d \in UNION {Packages(r) : r \in AllRepos(Source(p))}}
             /\ \A img \in AllImages(Source(p)) :
                   LET ms == SelectSeq(Commands(p, "mount"), LAMBDA c : c.dev = img)
                   IN Len(ms) = 1 /\ ms[1].opts = "loop"
             /\ Len(Commands(p, "mount")) = 1 + Cardinality(AllImages(Source(p)))

\* C15 witness: a source with no repository and one image was processed, and
\* the two repositories inside the image were staged and extracted
C15_Witness ==
    \E p \in DOMAIN pc :
       /\ Returned(p)
       /\ find_repos(Source(p)) = <<>> /\ Len(find_isos(Source(p))) = 1
       /\ Len(staged) = 2
       /\ updates = {"inner/a/kmod.rpm", "inner/b/doc.rpm"}

\* the package a dd_extract command was run on
PackageOf(c) ==
    CHOOSE d \in UNION {Packages(r) : r \in Repos} : d.source = c.dev

\* the names of the extracted packages that install modules or firmware, in
\* the order of their extraction
NamesToInstall(p) ==
    LET ex == SelectSeq(Commands(p, "dd_extract"),
                        LAMBDA c : /\ c.ok
                                   /\ \/ "modules" \in PackageOf(c).flags
                                      \/ "firmwares" \in PackageOf(c).flags)
    IN [i \in 1..Len(ex) |-> PackageOf(ex[i]).name]

\* C16: the package ledger holds one line per extracted package flagged
\* "modules" or "firmwares", in extraction order, repeated names included,
\* and no line for any other package; once a source was processed every
\* listed package was extracted once (a source whose two repositories hold
\* one "modules" package and one untagged package ends with two staged
\* copies, two extractions and one ledger line).
C16_PackageLedger ==
    \A p \in DOMAIN pc :
       /\ read_lines(pkglist) = NamesToInstall(p)
       /\ Returned(p) =>
             /\ \A r \in AllRepos(Source(p)) : \A d \in Packages(r) :
                   Len(SelectSeq(Commands(p, "dd_extract"),
                                 LAMBDA c : c.dev = d.source /\ c.ok)) = 1
             /\ Source(p) = "/dev/sdc1" =>
                   /\ Len(staged) = 2
                   /\ Len(Commands(p, "dd_extract")) = 2
                   /\ read_lines(pkglist) = <<"kmod">>

\* C16 witness: a source was processed whose packages put the same name in
\* the ledger twice and one package not at all
C16_Witness ==
    \E p \in DOMAIN pc :
       /\ Returned(p)
       /\ read_lines(pkglist) = <<"kmod", "fw", "kmod">>
       /\ "sr0/tool.rpm" \in updates

\* C17: a dd_extract that failed is the last command of its process: the
\* process has failed, neither that package nor a later one of the
\* repository is extracted or in the ledger, and nothing more is run.
C17_FailedExtractionAborts ==
    \A p \in DOMAIN pc :
       \A i \in DOMAIN cmds[p] :
          (cmds[p][i].cmd = "dd_extract" /\ ~cmds[p][i].ok) =>
             LET top == frames[p][Len(frames[p])] IN
             /\ i = Len(cmds[p])
             /\ pc[p] = "failed"
             /\ ~ENABLED NextDisk
             /\ Head(top.drivers).source = cmds[p][i].dev
             /\ \A k \in DOMAIN top.drivers : top.drivers[k].source \notin updates
             /\ Len(read_lines(pkglist))
                  = Cardinality({j \in 1..(i - 1) :
                       /\ cmds[p][j].cmd = "dd_extract"
                       /\ PackageOf(cmds[p][j]).flags \cap {"modules", "firmwares"} # {}})

\* C17 witness: the second package of a repository failed to extract after
\* the first one was extracted and recorded
C17_Witness ==
    \E p \in DOMAIN pc :
       /\ Len(cmds[p]) = 3
       /\ cmds[p][2] = dd_extract_cmd("sr0/kmod.rpm", TRUE)
       /\ cmds[p][3] = dd_extract_cmd("sr0/tool.rpm", FALSE)
       /\ read_lines(pkglist) = <<"kmod">>

\* C20: a mkdir_seq(stem) call makes and returns stem+n for the smallest
\* n >= 1 whose path did not exist, leaving the other directories alone; the
\* suffixes returned for one stem increase strictly from call to call, and
\* every returned path exists.
C20_MkdirSeq ==
    /\ [][\A stem \in Stems :
             MkdirSeq(stem) =>
                LET ret == made'[Len(made')] IN
                /\ ret[1] = stem /\ ret[2] >= 1
                /\ ret \notin dirs
                /\ \A m \in 1..(ret[2] - 1) : <<stem, m>> \in dirs
                /\ dirs' = dirs \cup {ret}]_vars
    /\ [](\A i, j \in DOMAIN made :
             (i < j /\ made[i][1] = made[j][1]) => made[i][2] < made[j][2])
    /\ [](\A i \in DOMAIN made : made[i] \in dirs)

\* C20 witness: with suffixes 1 and 3 there already, two calls returned the
\* suffixes 2 and 4
C20_Witness ==
    /\ Len(made) = 2
    /\ made[1] = <<"/media/DD-", 2>>
    /\ made[2] = <<"/media/DD-", 4>>

\* the file f lies under the directory d, directly or in a subdirectory
Under(f, d) == Len(d) < Len(f) /\ SubSeq(f, 1, Len(d)) = d

\* the listed files that lie outside the destination
Outside == {f \in Range(args.files) : ~Under(f, args.destdir)}

\* no two listed files from outside the destination have the same name
NoNameClash == \A f, g \in Outside : basename(f) = basename(g) => f = g

\* C19: for a list whose outside files differ in name, copy_files and
\* move_files return normally, leave every listed file that lies under the
\* destination in place with its content (unless a listed outside file of
\* the same name is to overwrite it), put every listed file from outside the
\* destination into it, and a move leaves none of these behind.
C19_CopyMoveLeaveDestFiles ==
    [][((CopyFiles \/ MoveFiles) /\ NoNameClash) =>
         LET d == args.destdir
             inside == {f \in Range(args.files) : Under(f, d)}
         IN /\ ~fileop'.raised
            /\ \A f \in inside :
                  (\A g \in Outside : Append(d, basename(g)) # f)
                  => f \in DOMAIN tree' /\ tree'[f] = tree[f]
            /\ \A g \in Outside :
                  /\ Append(d, basename(g)) \in DOMAIN tree'
                  /\ tree'[Append(d, basename(g))] = tree[g]
                  /\ fileop'.op = "move_files" => g \notin DOMAIN tree']_vars

\* C14: whenever interactive() is about to run the device menu, the menu is
\* ready to read input, so that the user is asked again after each flow and
\* a flow is run only for a pick the user has just made.
C14_DeviceMenuPresentedAgain ==
    \A p \in DOMAIN pc : pc[p] = "device_menu" => ~is_done

\* C18: every mount command run has no options when its source is a device
\* node and the option "loop" when it is not, and its mount point is a
\* directory that mkdir_seq made.
C18_MountOptions ==
    \A p \in DOMAIN pc :
       \A i \in DOMAIN cmds[p] :
          cmds[p][i].cmd = "mount" =>
             /\ cmds[p][i].opts = (IF IsDevNode(cmds[p][i].dev) THEN "None" ELSE "loop")
             /\ cmds[p][i].mnt \in dirs

\* C21: no request identifier is written to /tmp/dd_finished twice, however
\* many invocations there are for it.
C21_FinishedNoDuplicates ==
    LET fin == read_lines(finished) IN
    \A i, j \in DOMAIN fin : i # j => fin[i] # fin[j]

\* the positions finish() has after load_drivers() and after mark_finished()
AfterLoad == {"mark", "readf", "readt", "write", "done"}
AfterMark == {"readf", "readt", "write", "done"}

\* C22: a umount or a depmod/modprobe that exits non-zero does not stop the
\* invocation: the step goes on as after a success, the request is marked
\* finished, and the sentinel is written if the ledgers were then equal.
C22_UmountAndLoadFailuresSwallowed ==
    /\ [](\A p \in DOMAIN pc :
             loaded[p] = "failed" =>
                /\ pc[p] \in AfterLoad
                /\ pc[p] \in AfterMark => req[p] \in FinishedSet
                /\ (pc[p] = "done" /\ all_finished(rdFinished[p], rdTodo[p]))
                      => sentinel # <<>>)
    /\ [][\A p \in DOMAIN pc :
             /\ Umount(p, FALSE) =>
                   /\ pc'[p] # "failed"
                   /\ Len(held'[p]) = Len(held[p]) - 1
             /\ Load(p, FALSE) => pc'[p] = "mark"]_vars

\* C22 witness: an invocation whose depmod/modprobe failed has unmounted its
\* source, marked its request and written the sentinel
C22_Witness ==
    \E p \in DOMAIN pc :
       /\ pc[p] = "done" /\ loaded[p] = "failed"
       /\ Returned(p)
       /\ req[p] \in FinishedSet
       /\ sentinel # <<>>

\* a file only grew at its end
IsPrefix(a, b) == Len(a) <= Len(b) /\ SubSeq(b, 1, Len(a)) = a

\* C25: every step leaves what /tmp/dd_finished and the package-name ledger
\* held in place and only adds after it, leaves /tmp/dd_todo as it was, and
\* does not remove /tmp/dd.done.
C25_LedgersAppendOnly ==
    [][/\ IsPrefix(finished, finished')
       /\ IsPrefix(pkglist, pkglist')
       /\ todo' = todo
       /\ IsPrefix(sentinel, sentinel')]_vars

\* C25 witness: both ledgers hold two lines or more, each written after the
\* one before, and the sentinel exists
C25_Witness ==
    /\ Len(read_lines(pkglist)) >= 2
    /\ Len(read_lines(finished)) = 2
    /\ sentinel # <<>>

\* the devices left mounted by a sequence of commands, innermost last;
\* <<"unmatched">> when a umount was not of the mount taken last
RECURSIVE Replay(_)
Replay(cs) ==
    IF cs = <<>> THEN <<>>
    ELSE LET st == Replay(SubSeq(cs, 1, Len(cs) - 1))
             c == cs[Len(cs)]
         IN IF st = <<"unmatched">> THEN st
            ELSE IF c.cmd = "mount" THEN (IF c.ok THEN Append(st, c.dev) ELSE st)
            ELSE IF c.cmd = "umount"
                 THEN (IF st # <<>> /\ st[Len(st)] = c.dev
                       THEN SubSeq(st, 1, Len(st) - 1) ELSE <<"unmatched">>)
            ELSE st

\* the devices of a sequence of mounts or of calls
DevsOf(s) == [i \in DOMAIN s |-> s[i].dev]

\* C26: while no tool has failed, each umount is of the mount taken last, the
\* mounts held are those of the calls in progress (a source stays mounted
\* while its images are processed), and once process_driver_disk has returned
\* the source and each image were mounted once and unmounted once and no
\* mount is held.
C26_MountsMatchedLifo ==
    \A p \in DOMAIN pc :
       pc[p] # "failed" =>
          /\ Replay(cmds[p]) = DevsOf(held[p])
          /\ DevsOf(frames[p]) = DevsOf(held[p])
          /\ Returned(p) =>
                /\ held[p] = <<>>
                /\ \A dev \in {Source(p)} \cup AllImages(Source(p)) :
                      /\ Len(SelectSeq(Commands(p, "mount"),
                                       LAMBDA c : c.dev = dev)) = 1
                      /\ Len(SelectSeq(Commands(p, "umount"),
                                       LAMBDA c : c.dev = dev)) = 1

\* C26 witness: a source with an image inside was processed without a
\* failure and the invocation ended
C26_Witness ==
    \E p \in DOMAIN pc :
       /\ pc[p] = "done"
       /\ Returned(p)
       /\ Len(Commands(p, "mount")) = 2
       /\ Len(Commands(p, "umount")) = 2
       /\ held[p] = <<>>

\* C27: a failed mount or extraction is the last command of a process that
\* has failed, and a repository whose staging copy failed is not extracted.
C27_ToolFailuresPropagate ==
    \A p \in DOMAIN pc :
       /\ \A i \in DOMAIN cmds[p] :
             (cmds[p][i].cmd \in {"mount", "dd_extract"} /\ ~cmds[p][i].ok) =>
                i = Len(cmds[p]) /\ pc[p] = "failed"
       /\ \A n \in DOMAIN staged :
             ~staged[n].copied =>
                /\ pc[p] = "failed"
                /\ \A d \in Packages(staged[n].repo) : d.source \notin updates

\* where `x` stands in a list without repetitions
IndexIn(sel, x) == CHOOSE i \in DOMAIN sel : sel[i] = x

\* C28: once the done flag is set no turn of run()'s loop is possible, so no
\* input is read and the menu stays as it is; the flag is set only by 'c'
\* or, in single-select mode, by the number of an item of the page; and
\* selected_items, which run() returns, lists the items in the order they
\* were selected: a step keeps the order of the items that stay and puts a
\* newly selected item last.
C28_TerminalOnceDone ==
    /\ [](is_done => \A k \in Keys : ~ENABLED Input(k, items))
    /\ [][(~is_done /\ is_done') =>
             \/ Input("c", items)
             \/ ~multi /\ \E n \in NumbersOnPage : Input(str(n), items)]_vars
    /\ [][/\ \A x, y \in Range(selected_items) \cap Range(selected_items') :
                IndexIn(selected_items, x) < IndexIn(selected_items, y)
                   <=> IndexIn(selected_items', x) < IndexIn(selected_items', y)
          /\ \A x \in Range(selected_items') \ Range(selected_items) :
                IndexIn(selected_items', x) = Len(selected_items')]_vars

\* C28 witness: a multi-select menu ended by 'c' with two items selected
C28_Witness ==
    /\ is_done /\ multi
    /\ Len(selected_items) = 2

\* C29: the page number designates a page: 1 <= pagenum <= max(1, num_pages).
C29_PageInRange ==
    /\ 1 <= pagenum
    /\ pagenum <= (IF num_pages(items, page_height) > 1
                   THEN num_pages(items, page_height) ELSE 1)

\* the packages of a sequence of repositories, flattened into one list
RECURSIVE Flattened(_)
Flattened(repos) ==
    IF repos = <<>> THEN <<>>
    ELSE RepoDrivers(Head(repos)) \o Flattened(Tail(repos))

\* C24: in dd_menu, once the device is mounted: with a repository under it
\* the next step opens a multi-select menu of the packages of all its
\* repositories; with images only, a single-select menu of the images is
\* opened; with neither, the flow goes to the end of the block and returns.
C24_PerDeviceFlow ==
    [][\A p \in DOMAIN pc :
          /\ (pc[p] = "repo_menu" /\ pc'[p] # "repo_menu") =>
                /\ pc'[p] # "failed"
                /\ multi'
                /\ items' = Flattened(find_repos(frames[p][Len(frames[p])].dev))
          /\ (pc[p] = "dd_menu" /\ pc'[p] \notin {"dd_menu", "failed"}) =>
                LET dev == call[p].dev IN
                IF find_repos(dev) # <<>> THEN pc'[p] = "repo_menu"
                ELSE IF find_isos(dev) # <<>>
                THEN pc'[p] = "iso_run" /\ ~multi' /\ items' = find_isos(dev)
                ELSE pc'[p] = "dd_umount"]_vars

\* C30: whatever the interleaving of the calls, no two mkdir_seq calls return
\* the same directory; a call whose makedirs meets a path that does not
\* exist makes it and returns it; and every call returns.
C30_ConcurrentMkdirSeq ==
    /\ [](\A p, q \in DOMAIN probe :
             (p # q /\ probe[p].ret # <<>>) => probe[p].ret # probe[q].ret)
    /\ [][\A p \in DOMAIN probe :
             (probe[p].ret = <<>> /\ probe'[p] # probe[p]
              /\ <<probe[p].stem, probe[p].n>> \notin dirs)
                => /\ probe'[p].ret = <<probe[p].stem, probe[p].n>>
                   /\ probe'[p].ret \in dirs']_vars
    /\ <>[](\A p \in DOMAIN probe : probe[p].ret # <<>>)

\* C30 witness: two calls with the same stem met the same existing directory
\* and returned the next two
C30_Witness ==
    \E p, q \in DOMAIN probe :
       /\ p # q /\ probe[p].stem = probe[q].stem
       /\ probe[p].n = 2 /\ probe[q].n = 3
       /\ probe[p].ret = <<probe[p].stem, 2>>
       /\ probe[q].ret = <<probe[q].stem, 3>>

\* C23: a run over a working directory that earlier runs have left their
\* moved modules and firmware in does not fail, and once it has ended its
\* request is in /tmp/dd_finished.
C23_RerunCompletes ==
    \A p \in DOMAIN pc :
       /\ pc[p] # "failed"
       /\ pc[p] = "done" => req[p] \in FinishedSet

====
